---- MODULE Spec2Model ----
(***************************************************************************)
(* Model of the X-buzz configuration loader (src/config/env.ts) and of the *)
(* Twitter client wrapper (src/lib/twitter/client.ts, types.ts).           *)
(*                                                                         *)
(* JavaScript objects are modelled as functions whose DOMAIN is the set of *)
(* properties that are present: an absent property (undefined) is a key    *)
(* that is not in the DOMAIN.  Dates are records [valid, ms]; an Invalid   *)
(* Date is InvalidDate.                                                    *)
(***************************************************************************)
EXTENDS Integers, Sequences, FiniteSets, TLC

VARIABLES
    env,            \* process.env: the variables that are set, with their string value
    configResult,   \* outcome of the last loadConfig() call
    raw,            \* raw upstream payload handed to mapTweet / mapUser
    mapped,         \* outcome of the last mapTweet / mapUser call
    authMethod,     \* TwitterClient.authMethod
    clientKind,     \* which credentials the TwitterApi handle was built from
    rateLimits,     \* TwitterClient.rateLimits (Map<string, RateLimitInfo>)
    last,           \* the last wrapper call: operation, endpoint called, upstream outcome, result
    calls,          \* number of wrapper calls made so far
    inFlight        \* per operation, the calls suspended at their await of the underlying client

vars == <<env, configResult, raw, mapped, authMethod, clientKind, rateLimits, last, calls,
          inFlight>>

(***************************************************************************)
(* Generic helpers                                                         *)
(***************************************************************************)

\* all objects with properties among K (each present or absent) and values in V
PartialFns(K, V) == UNION {[S -> V] : S \in SUBSET K}

Has(obj, key) == key \in DOMAIN obj

(***************************************************************************)
(* Configuration loader: src/config/env.ts                                 *)
(***************************************************************************)

\* the five required variables, in the order loadConfig reads them
RequiredVars == <<"TWITTER_API_KEY", "TWITTER_API_SECRET", "TWITTER_ACCESS_TOKEN",
                  "TWITTER_ACCESS_TOKEN_SECRET", "TWITTER_BEARER_TOKEN">>

OptionalVars == {"ANTHROPIC_API_KEY", "NODE_ENV", "LOG_LEVEL"}

EnvNames == {RequiredVars[i] : i \in 1..Len(RequiredVars)} \cup OptionalVars

\* the values a variable takes when it is set: the empty string, the value the
\* tests give it, and for the enumerated settings a value outside the enumeration
EnvValues(name) ==
    CASE name = "TWITTER_API_KEY"             -> {"", "test-api-key"}
      [] name = "TWITTER_API_SECRET"          -> {"", "test-api-secret"}
      [] name = "TWITTER_ACCESS_TOKEN"        -> {"", "test-access-token"}
      [] name = "TWITTER_ACCESS_TOKEN_SECRET" -> {"", "test-access-token-secret"}
      [] name = "TWITTER_BEARER_TOKEN"        -> {"", "test-bearer-token"}
      [] name = "ANTHROPIC_API_KEY"           -> {"", "sk-ant-test"}
      [] name = "NODE_ENV"                    -> {"", "test", "staging"}
      [] name = "LOG_LEVEL"                   -> {"", "debug", "verbose"}

\* a variable unset, or set to one of its values
EnvSettings(name) == {[n \in {} |-> ""]} \cup {[n \in {name} |-> v] : v \in EnvValues(name)}

\* every environment: each variable unset or set, independently
Environments ==
    {k1 @@ k2 @@ k3 @@ k4 @@ k5 @@ a @@ e @@ l :
        k1 \in EnvSettings(RequiredVars[1]), k2 \in EnvSettings(RequiredVars[2]),
        k3 \in EnvSettings(RequiredVars[3]), k4 \in EnvSettings(RequiredVars[4]),
        k5 \in EnvSettings(RequiredVars[5]), a \in EnvSettings("ANTHROPIC_API_KEY"),
        e \in EnvSettings("NODE_ENV"), l \in EnvSettings("LOG_LEVEL")}

\* the environment the client tests run in
TestEnv == [n \in {RequiredVars[i] : i \in 1..Len(RequiredVars)} |->
               CHOOSE v \in EnvValues(n) : v # ""]

\* getEnvVar with the emptiness test replaced by a test for undefined only
getEnvVar_undefinedOnly(name, required) ==
    IF required /\ ~Has(env, name)
    THEN [threw |-> TRUE, message |-> "Missing required environment variable: " \o name]
    ELSE [threw |-> FALSE, value |-> IF Has(env, name) THEN env[name] ELSE ""]

\* getEnvVar(name, required): throws when required and !value, else value ?? ''
getEnvVar(name, required) ==
    IF required /\ ~(Has(env, name) /\ env[name] # "")
    THEN [threw |-> TRUE, message |-> "Missing required environment variable: " \o name]
    ELSE [threw |-> FALSE, value |-> IF Has(env, name) THEN env[name] ELSE ""]

\* process.env.X ?? fallback : only an unset variable takes the fallback
envOrDefault_nullish(name, fallback) ==
    IF Has(env, name) THEN env[name] ELSE fallback

\* process.env.X || fallback : an unset or empty variable takes the fallback
envOrDefault(name, fallback) ==
    IF Has(env, name) /\ env[name] # "" THEN env[name] ELSE fallback

\* the object literal of loadConfig, its properties evaluated in source order;
\* the first getEnvVar that throws ends the evaluation
loadConfig ==
    LET k1 == getEnvVar(RequiredVars[1], TRUE)
        k2 == getEnvVar(RequiredVars[2], TRUE)
        k3 == getEnvVar(RequiredVars[3], TRUE)
        k4 == getEnvVar(RequiredVars[4], TRUE)
        k5 == getEnvVar(RequiredVars[5], TRUE)
        a  == getEnvVar("ANTHROPIC_API_KEY", FALSE)
        Threw(r) == [status |-> "threw", message |-> r.message]
    IN  IF k1.threw THEN Threw(k1)
        ELSE IF k2.threw THEN Threw(k2)
        ELSE IF k3.threw THEN Threw(k3)
        ELSE IF k4.threw THEN Threw(k4)
        ELSE IF k5.threw THEN Threw(k5)
        ELSE IF a.threw THEN Threw(a)
        ELSE [status |-> "returned",
              value  |-> [twitter   |-> [apiKey            |-> k1.value,
                                         apiSecret         |-> k2.value,
                                         accessToken       |-> k3.value,
                                         accessTokenSecret |-> k4.value,
                                         bearerToken       |-> k5.value],
                          anthropic |-> [apiKey |-> a.value],
                          app       |-> [environment |-> envOrDefault("NODE_ENV", "development"),
                                         logLevel    |-> envOrDefault("LOG_LEVEL", "info")]]]

NotLoaded == [status |-> "none"]

\* a call of loadConfig()
LoadConfig ==
    /\ configResult' = loadConfig
    /\ UNCHANGED <<env, raw, mapped, authMethod, clientKind, rateLimits, last, calls, inFlight>>

(***************************************************************************)
(* Dates                                                                   *)
(***************************************************************************)

\* a Date holding the time ms (milliseconds since the epoch)
DateOf(ms) == [valid |-> TRUE, ms |-> ms]

\* the Invalid Date, whose time value is NaN
InvalidDate == [valid |-> FALSE, ms |-> 0]

\* the date strings of the model that Date parsing accepts
ParsableDates == {"1970-01-01T00:00:05.000Z", "1970-01-01T00:00:07.000Z"}

\* new Date(s) for a string s: the parsed time, or the Invalid Date
DateFromString(s) ==
    CASE s = "1970-01-01T00:00:05.000Z" -> DateOf(5000)
      [] s = "1970-01-01T00:00:07.000Z" -> DateOf(7000)
      [] OTHER                          -> InvalidDate

\* the creation-time strings an upstream payload carries when it carries one
CreatedAtStrings == ParsableDates \cup {"", "not-a-date"}

\* number of distinct clock readings new Date() can give
MaxNow == 2

\* the clock readings, in milliseconds
NowValues == {9000 + i : i \in 1..MaxNow}

(***************************************************************************)
(* Mapping of raw payloads: TwitterClient.mapTweet / mapUser               *)
(***************************************************************************)

EmptyObject == [k \in {} |-> 0]

\* obj.key || 0 : an absent or zero property gives 0
OrZero(obj, key) == IF Has(obj, key) /\ obj[key] # 0 THEN obj[key] ELSE 0

\* obj.key || '' : an absent or empty property gives ''
OrEmpty(obj, key) == IF Has(obj, key) THEN obj[key] ELSE ""

\* obj.created_at ? new Date(obj.created_at) : new Date()
createdAtOf(obj, now) ==
    IF Has(obj, "created_at") /\ obj.created_at # ""
    THEN DateFromString(obj.created_at)
    ELSE DateOf(now)

\* the metrics literal with retweets read from like_count
mapTweetMetrics_copyPaste(metrics) ==
    [likes       |-> OrZero(metrics, "like_count"),
     retweets    |-> OrZero(metrics, "like_count"),
     replies     |-> OrZero(metrics, "reply_count"),
     impressions |-> OrZero(metrics, "impression_count"),
     quotes      |-> OrZero(metrics, "quote_count"),
     bookmarks   |-> OrZero(metrics, "bookmark_count")]

\* the metrics literal of mapTweet; metrics is tweet.public_metrics, or the
\* empty object when that is undefined (metrics?.x is then undefined)
mapTweetMetrics(metrics) ==
    [likes       |-> OrZero(metrics, "like_count"),
     retweets    |-> OrZero(metrics, "retweet_count"),
     replies     |-> OrZero(metrics, "reply_count"),
     impressions |-> OrZero(metrics, "impression_count"),
     quotes      |-> OrZero(metrics, "quote_count"),
     bookmarks   |-> OrZero(metrics, "bookmark_count")]

\* tweet.referenced_tweets.map(ref => ({type: ref.type, id: ref.id}))
mapReferences(refs) == [i \in 1..Len(refs) |-> [type |-> refs[i].type, id |-> refs[i].id]]

\* mapTweet(tweet, mediaMap), run while the clock reads now; mediaMap is never read
mapTweet(tweet, now) ==
    LET metrics == IF Has(tweet, "public_metrics") THEN tweet.public_metrics ELSE EmptyObject
        post == [id        |-> tweet.id,
                 text      |-> tweet.text,
                 authorId  |-> OrEmpty(tweet, "author_id"),
                 createdAt |-> createdAtOf(tweet, now),
                 metrics   |-> mapTweetMetrics(metrics)]
    IN  IF Has(tweet, "referenced_tweets")
        THEN post @@ [referencedTweets |-> mapReferences(tweet.referenced_tweets)]
        ELSE post

\* mapUser(user), run while the clock reads now
mapUser(user, now) ==
    LET metrics == IF Has(user, "public_metrics") THEN user.public_metrics ELSE EmptyObject
    IN  [id              |-> user.id,
         username        |-> user.username,
         displayName     |-> user.name,
         description     |-> OrEmpty(user, "description"),
         profileImageUrl |-> OrEmpty(user, "profile_image_url"),
         followersCount  |-> OrZero(metrics, "followers_count"),
         followingCount  |-> OrZero(metrics, "following_count"),
         tweetCount      |-> OrZero(metrics, "tweet_count"),
         verified        |-> IF Has(user, "verified") THEN user.verified ELSE FALSE,
         createdAt       |-> createdAtOf(user, now)]

TweetMetricKeys == {"like_count", "retweet_count", "reply_count",
                    "impression_count", "quote_count", "bookmark_count"}

UserMetricKeys == {"followers_count", "following_count", "tweet_count"}

\* the counter values an upstream payload carries
CountValues == {-1, 0, 7}

\* raw posts: every combination of present and absent metric sub-fields, with
\* or without public_metrics, created_at, author_id and referenced_tweets
RawTweets ==
    LET base    == {[id |-> "tweet1", text |-> "Test tweet"]}
        metrics == {EmptyObject} \cup
                   {[public_metrics |-> m] : m \in PartialFns(TweetMetricKeys, CountValues)}
        created == {EmptyObject} \cup {[created_at |-> c] : c \in CreatedAtStrings}
        rest    == {EmptyObject,
                    [author_id |-> "123"],
                    [referenced_tweets |-> <<[type |-> "quoted", id |-> "tweet0"]>>]}
    IN  {b @@ m @@ c @@ r : b \in base, m \in metrics, c \in created, r \in rest}

\* raw users, likewise
RawUsers ==
    LET base    == {[id |-> "123", username |-> "testuser", name |-> "Test User"]}
        metrics == {EmptyObject} \cup
                   {[public_metrics |-> m] : m \in PartialFns(UserMetricKeys, CountValues)}
        created == {EmptyObject} \cup {[created_at |-> c] : c \in CreatedAtStrings}
        rest    == {EmptyObject,
                    [verified |-> TRUE],
                    [description |-> "Test description",
                     profile_image_url |-> "https://example.com/image.jpg"]}
    IN  {b @@ m @@ c @@ r : b \in base, m \in metrics, c \in created, r \in rest}

NotMapped == [kind |-> "none"]

\* mapTweet applied to the raw post at hand
MapTweet ==
    /\ raw.kind = "tweet"
    /\ \E now \in NowValues :
         mapped' = [kind |-> "tweet", now |-> now, value |-> mapTweet(raw.value, now)]
    /\ UNCHANGED <<env, configResult, raw, authMethod, clientKind, rateLimits, last, calls, inFlight>>

\* mapUser applied to the raw user at hand
MapUser ==
    /\ raw.kind = "user"
    /\ \E now \in NowValues :
         mapped' = [kind |-> "user", now |-> now, value |-> mapUser(raw.value, now)]
    /\ UNCHANGED <<env, configResult, raw, authMethod, clientKind, rateLimits, last, calls, inFlight>>

(***************************************************************************)
(* The client wrapper: TwitterClient                                       *)
(***************************************************************************)

Operations == {"verifyCredentials", "getUser", "getUserById",
               "getUserTweets", "getTweet", "searchTweets"}

\* the authMethod a caller passes; an options object without the key takes the default
AuthMethodOptions == {EmptyObject} \cup
    {[authMethod |-> m] : m \in {"oauth2-app", "oauth1", "oauth2-user", "basic"}}

\* the constructor: the auth method kept and the credentials the handle is built from
construct(options) ==
    LET method == IF Has(options, "authMethod") THEN options.authMethod ELSE "oauth2-app"
    IN  [authMethod |-> method,
         clientKind |-> IF method = "oauth2-app" THEN "bearerToken"
                        ELSE IF method = "oauth1" THEN "userContext"
                        ELSE "bearerToken"]

\* a property that is present and holds undefined
Undefined == [undefined |-> TRUE]

\* null, as a returned value
Null == [null |-> TRUE]

\* the rate-limit payloads an error carries: limit, remaining, reset in epoch seconds
RateLimitPayloads == {[limit |-> 15,  remaining |-> 0, reset |-> 60],
                      [limit |-> 300, remaining |-> 3, reset |-> 120]}

\* the values the underlying client throws: Error instances without a rateLimit
\* property, with one that is undefined, with a payload; and values that are no Error
ThrownValues ==
    {[isError |-> TRUE, message |-> "Request failed"],
     [isError |-> TRUE, message |-> "Request failed", rateLimit |-> Undefined]}
    \cup {[isError |-> TRUE, message |-> "Too Many Requests", rateLimit |-> p] :
             p \in RateLimitPayloads}
    \cup {[isError |-> FALSE],
          [isError |-> FALSE, rateLimit |-> CHOOSE p \in RateLimitPayloads : p.limit = 15]}

\* the raw posts and users the upstream of the client delivers
ClientTweets ==
    {[id |-> "tweet1", text |-> "Test tweet", author_id |-> "123",
      created_at |-> "1970-01-01T00:00:05.000Z",
      public_metrics |-> [like_count |-> 100, retweet_count |-> 50, reply_count |-> 10,
                          impression_count |-> 5000, quote_count |-> 5,
                          bookmark_count |-> 20]],
     [id |-> "tweet2", text |-> "Search result tweet", author_id |-> "456",
      created_at |-> "1970-01-01T00:00:07.000Z",
      public_metrics |-> [like_count |-> 200, retweet_count |-> 100]]}

ClientUsers ==
    {[id |-> "123", username |-> "testuser", name |-> "Test User",
      description |-> "Test description",
      profile_image_url |-> "https://example.com/image.jpg",
      public_metrics |-> [followers_count |-> 1000, following_count |-> 500,
                          tweet_count |-> 100],
      verified |-> FALSE, created_at |-> "1970-01-01T00:00:07.000Z"],
     [id |-> "456", username |-> "bare", name |-> "Bare User"]}

\* largest number of posts in one upstream page
MaxPage == 1

BoundedSeqs(S, n) == UNION {[1..k -> S] : k \in 0..n}

\* upstream pages: with or without data, data.data and meta; meta with or without
\* each cursor and with a result_count that need not be the number of posts
PageResponses ==
    LET data == {EmptyObject, [data |-> EmptyObject]} \cup
                {[data |-> [data |-> t]] : t \in BoundedSeqs(ClientTweets, MaxPage)}
        meta == {EmptyObject, [meta |-> [previous_token |-> "prev123"]]} \cup
                {[meta |-> n @@ c] :
                    n \in {EmptyObject, [next_token |-> "next123"]},
                    c \in {EmptyObject} \cup {[result_count |-> k] : k \in 0..MaxPage}}
    IN  {d @@ m @@ [includes |-> [media |-> <<>>]] : d \in data, m \in meta}

\* what each method of the underlying client resolves with
Responses(endpoint) ==
    CASE endpoint = "v2.me" ->
            {EmptyObject, [data |-> [id |-> "123", username |-> "testuser"]]}
      [] endpoint = "readOnly.v2.tweets" -> {[data |-> <<>>]}
      [] endpoint \in {"readOnly.v2.userByUsername", "readOnly.v2.user"} ->
            {EmptyObject} \cup {[data |-> u] : u \in ClientUsers}
      [] endpoint = "readOnly.v2.singleTweet" ->
            {EmptyObject} \cup {[data |-> t] : t \in ClientTweets}
      [] endpoint \in {"readOnly.v2.userTimeline", "readOnly.v2.search"} -> PageResponses

\* the outcomes of an awaited call: it resolves with a response or throws
Outcomes(endpoint) ==
    {[kind |-> "resolve", response |-> r] : r \in Responses(endpoint)}
    \cup {[kind |-> "throw", error |-> e] : e \in ThrownValues}

Returned(v, rl) == [result |-> [threw |-> FALSE, value |-> v], rateLimits |-> rl]

\* handleError dropping the operation's snapshot on an error without a payload
handleError_dropOnPlain(rl, error, context) ==
    IF error.isError /\ Has(error, "rateLimit") /\ error.rateLimit # Undefined
    THEN [k \in DOMAIN rl \cup {context} |->
            IF k = context
            THEN [endpoint  |-> context,
                  limit     |-> error.rateLimit.limit,
                  remaining |-> error.rateLimit.remaining,
                  reset     |-> DateOf(error.rateLimit.reset * 1000)]
            ELSE rl[k]]
    ELSE [k \in DOMAIN rl \ {context} |-> rl[k]]

\* handleError(error, context): the rate-limit map after the call
handleError(rl, error, context) ==
    IF error.isError /\ Has(error, "rateLimit") /\ error.rateLimit # Undefined
    THEN [k \in DOMAIN rl \cup {context} |->
            IF k = context
            THEN [endpoint  |-> context,
                  limit     |-> error.rateLimit.limit,
                  remaining |-> error.rateLimit.remaining,
                  reset     |-> DateOf(error.rateLimit.reset * 1000)]
            ELSE rl[k]]
    ELSE rl

\* the method verifyCredentials awaits under an auth method
verifyEndpoint(method) == IF method = "oauth1" THEN "v2.me" ELSE "readOnly.v2.tweets"

\* verifyCredentials returning true under oauth1 whatever v2.me resolved with
verifyCredentials_noDataCheck(rl, method, outcome) ==
    IF outcome.kind = "throw" THEN Returned(FALSE, rl) ELSE Returned(TRUE, rl)

\* verifyCredentials(): its catch block logs and returns false
verifyCredentials(rl, method, outcome) ==
    IF outcome.kind = "throw"
    THEN Returned(FALSE, rl)
    ELSE IF method = "oauth1"
         THEN Returned(Has(outcome.response, "data"), rl)
         ELSE Returned(TRUE, rl)

\* getUser(username)
getUser(rl, outcome, now) ==
    IF outcome.kind = "throw"
    THEN Returned(Null, handleError(rl, outcome.error, "getUser"))
    ELSE IF ~Has(outcome.response, "data")
         THEN Returned(Null, rl)
         ELSE Returned(mapUser(outcome.response.data, now), rl)

\* getUserById(userId)
getUserById(rl, outcome, now) ==
    IF outcome.kind = "throw"
    THEN Returned(Null, handleError(rl, outcome.error, "getUserById"))
    ELSE IF ~Has(outcome.response, "data")
         THEN Returned(Null, rl)
         ELSE Returned(mapUser(outcome.response.data, now), rl)

\* response.data?.data || []
tweetsOf(response) ==
    IF Has(response, "data") /\ Has(response.data, "data") THEN response.data.data ELSE <<>>

\* response.meta, or the empty object when it is undefined
metaOf(response) == IF Has(response, "meta") THEN response.meta ELSE EmptyObject

\* the page returned from a catch block
emptyPage == [data |-> <<>>, meta |-> [resultCount |-> 0]]

\* tweets.map(tweet => this.mapTweet(tweet, mediaMap))
mapTweets(tweets, now) == [i \in 1..Len(tweets) |-> mapTweet(tweets[i], now)]

\* getUserTweets(userId, options)
getUserTweets(rl, outcome, now) ==
    IF outcome.kind = "throw"
    THEN Returned(emptyPage, handleError(rl, outcome.error, "getUserTweets"))
    ELSE LET meta == metaOf(outcome.response)
         IN  Returned([data |-> mapTweets(tweetsOf(outcome.response), now),
                       meta |-> (IF Has(meta, "next_token")
                                 THEN [nextToken |-> meta.next_token] ELSE EmptyObject)
                             @@ (IF Has(meta, "previous_token")
                                 THEN [previousToken |-> meta.previous_token] ELSE EmptyObject)
                             @@ [resultCount |-> OrZero(meta, "result_count")]],
                      rl)

\* getTweet with a catch block that hands the error on
getTweet_rethrow(rl, outcome, now) ==
    IF outcome.kind = "throw"
    THEN [result     |-> [threw |-> TRUE, error |-> outcome.error],
          rateLimits |-> handleError(rl, outcome.error, "getTweet")]
    ELSE IF ~Has(outcome.response, "data")
         THEN Returned(Null, rl)
         ELSE Returned(mapTweet(outcome.response.data, now), rl)

\* getTweet(tweetId)
getTweet(rl, outcome, now) ==
    IF outcome.kind = "throw"
    THEN Returned(Null, handleError(rl, outcome.error, "getTweet"))
    ELSE IF ~Has(outcome.response, "data")
         THEN Returned(Null, rl)
         ELSE Returned(mapTweet(outcome.response.data, now), rl)

\* searchTweets(query, options)
searchTweets(rl, outcome, now) ==
    IF outcome.kind = "throw"
    THEN Returned(emptyPage, handleError(rl, outcome.error, "searchTweets"))
    ELSE LET meta == metaOf(outcome.response)
         IN  Returned([data |-> mapTweets(tweetsOf(outcome.response), now),
                       meta |-> (IF Has(meta, "next_token")
                                 THEN [nextToken |-> meta.next_token] ELSE EmptyObject)
                             @@ [resultCount |-> OrZero(meta, "result_count")]],
                      rl)

\* getRateLimitInfo(endpoint): the snapshot, or undefined
getRateLimitInfo(rl, endpoint) == IF Has(rl, endpoint) THEN rl[endpoint] ELSE Undefined

\* getAllRateLimits(): the snapshots held (as a set; the array is in insertion order)
getAllRateLimits(rl) == {rl[k] : k \in DOMAIN rl}

NoCall == [op |-> "none"]

\* no call is suspended
NoneInFlight == [op \in Operations |-> 0]

\* largest number of wrapper calls in one run
MaxCalls == 3

\* the clock reading, in milliseconds, during the call after n earlier ones
ClockAt(n) == 9000 + n

\* one wrapper call from its start to its return: the endpoint awaited, what the
\* underlying client answered, what the wrapper returned and the map it left
Call(op, endpoint, outcome, done) ==
    /\ calls < MaxCalls
    /\ calls' = calls + 1
    /\ last' = [op |-> op, endpoint |-> endpoint, outcome |-> outcome, result |-> done.result]
    /\ rateLimits' = done.rateLimits
    /\ UNCHANGED <<env, configResult, raw, mapped, authMethod, clientKind, inFlight>>

VerifyCredentials ==
    \E outcome \in Outcomes(verifyEndpoint(authMethod)) :
        Call("verifyCredentials", verifyEndpoint(authMethod), outcome,
             verifyCredentials(rateLimits, authMethod, outcome))

GetUser ==
    \E outcome \in Outcomes("readOnly.v2.userByUsername") :
        Call("getUser", "readOnly.v2.userByUsername", outcome,
             getUser(rateLimits, outcome, ClockAt(calls)))

GetUserById ==
    \E outcome \in Outcomes("readOnly.v2.user") :
        Call("getUserById", "readOnly.v2.user", outcome,
             getUserById(rateLimits, outcome, ClockAt(calls)))

GetUserTweets ==
    \E outcome \in Outcomes("readOnly.v2.userTimeline") :
        Call("getUserTweets", "readOnly.v2.userTimeline", outcome,
             getUserTweets(rateLimits, outcome, ClockAt(calls)))

GetTweet ==
    \E outcome \in Outcomes("readOnly.v2.singleTweet") :
        Call("getTweet", "readOnly.v2.singleTweet", outcome,
             getTweet(rateLimits, outcome, ClockAt(calls)))

SearchTweets ==
    \E outcome \in Outcomes("readOnly.v2.search") :
        Call("searchTweets", "readOnly.v2.search", outcome,
             searchTweets(rateLimits, outcome, ClockAt(calls)))

\* getRateLimitInfo(endpoint) for an operation name or a name never recorded
GetRateLimitInfo ==
    \E name \in Operations \cup {"unknown"} :
        Call("getRateLimitInfo", "none", [kind |-> "none", argument |-> name],
             Returned(getRateLimitInfo(rateLimits, name), rateLimits))

\* getAllRateLimits()
GetAllRateLimits ==
    Call("getAllRateLimits", "none", [kind |-> "none"],
         Returned(getAllRateLimits(rateLimits), rateLimits))

(***************************************************************************)
(* Specifications                                                          *)
(***************************************************************************)

\* the configuration loader in every environment
InitConfig ==
    /\ env \in Environments
    /\ configResult = NotLoaded
    /\ raw = [kind |-> "none"]
    /\ mapped = NotMapped
    /\ authMethod = "oauth2-app"
    /\ clientKind = "bearerToken"
    /\ rateLimits = EmptyObject
    /\ last = NoCall
    /\ calls = 0
    /\ inFlight = NoneInFlight

NextConfig == LoadConfig

SpecConfig == InitConfig /\ [][NextConfig]_vars

\* the mapping functions on every raw payload
InitMapping ==
    /\ env = TestEnv
    /\ configResult = NotLoaded
    /\ raw \in {[kind |-> "tweet", value |-> t] : t \in RawTweets}
             \cup {[kind |-> "user", value |-> u] : u \in RawUsers}
    /\ mapped = NotMapped
    /\ authMethod = "oauth2-app"
    /\ clientKind = "bearerToken"
    /\ rateLimits = EmptyObject
    /\ last = NoCall
    /\ calls = 0
    /\ inFlight = NoneInFlight

NextMapping == MapTweet \/ MapUser

SpecMapping == InitMapping /\ [][NextMapping]_vars

\* a wrapper instance after construction, and its operations
Init ==
    /\ env = TestEnv
    /\ configResult = NotLoaded
    /\ raw = [kind |-> "none"]
    /\ mapped = NotMapped
    /\ \E options \in AuthMethodOptions :
         /\ authMethod = construct(options).authMethod
         /\ clientKind = construct(options).clientKind
    /\ rateLimits = EmptyObject
    /\ last = NoCall
    /\ calls = 0
    /\ inFlight = NoneInFlight

Next ==
    \/ VerifyCredentials
    \/ GetUser
    \/ GetUserById
    \/ GetUserTweets
    \/ GetTweet
    \/ SearchTweets
    \/ GetRateLimitInfo
    \/ GetAllRateLimits

Spec == Init /\ [][Next]_vars

(***************************************************************************)
(* Concurrently issued operations                                          *)
(*                                                                         *)
(* An async method runs up to its await when it is called and is then      *)
(* suspended; when the underlying promise settles, the rest of the method  *)
(* (the mapping, or the catch block with handleError) runs to its return   *)
(* without interruption.  Calls settle in any order.                       *)
(***************************************************************************)

\* largest number of calls suspended at the same time
MaxInFlight == 2

\* the method of the underlying client an operation awaits
endpointOf(op, method) ==
    CASE op = "verifyCredentials" -> verifyEndpoint(method)
      [] op = "getUser"           -> "readOnly.v2.userByUsername"
      [] op = "getUserById"       -> "readOnly.v2.user"
      [] op = "getUserTweets"     -> "readOnly.v2.userTimeline"
      [] op = "getTweet"          -> "readOnly.v2.singleTweet"
      [] op = "searchTweets"      -> "readOnly.v2.search"

\* the part of an operation that runs once its awaited call has settled
resume(op, rl, method, outcome, now) ==
    CASE op = "verifyCredentials" -> verifyCredentials(rl, method, outcome)
      [] op = "getUser"           -> getUser(rl, outcome, now)
      [] op = "getUserById"       -> getUserById(rl, outcome, now)
      [] op = "getUserTweets"     -> getUserTweets(rl, outcome, now)
      [] op = "getTweet"          -> getTweet(rl, outcome, now)
      [] op = "searchTweets"      -> searchTweets(rl, outcome, now)

\* what a suspended call is resumed with: every thrown value, and the
\* responses that carry no posts, no user and no meta
SettleOutcomes(endpoint) ==
    {o \in Outcomes(endpoint) :
        o.kind = "resolve" =>
            /\ ~Has(o.response, "meta")
            /\ Has(o.response, "data") => o.response.data \in {<<>>, EmptyObject}}

InFlightCount == inFlight["verifyCredentials"] + inFlight["getUser"] + inFlight["getUserById"]
                 + inFlight["getUserTweets"] + inFlight["getTweet"] + inFlight["searchTweets"]

\* an operation is called: it runs to its await and is suspended there
Issue ==
    \E op \in Operations :
        /\ calls < MaxCalls
        /\ InFlightCount < MaxInFlight
        /\ calls' = calls + 1
        /\ inFlight' = [inFlight EXCEPT ![op] = @ + 1]
        /\ UNCHANGED <<env, configResult, raw, mapped, authMethod, clientKind, rateLimits, last>>

\* the awaited call of a suspended operation settles and the operation runs to its return
Settle ==
    \E op \in Operations :
        /\ inFlight[op] > 0
        /\ \E outcome \in SettleOutcomes(endpointOf(op, authMethod)) :
             LET done == resume(op, rateLimits, authMethod, outcome, ClockAt(calls))
             IN  /\ last' = [op |-> op, endpoint |-> endpointOf(op, authMethod),
                             outcome |-> outcome, result |-> done.result]
                 /\ rateLimits' = done.rateLimits
        /\ inFlight' = [inFlight EXCEPT ![op] = @ - 1]
        /\ UNCHANGED <<env, configResult, raw, mapped, authMethod, clientKind, calls>>

NextConcurrent == Issue \/ Settle

\* a wrapper instance whose operations are issued concurrently
SpecConcurrent == Init /\ [][NextConcurrent]_vars

(***************************************************************************)
(* Properties of the configuration loader (checked under SpecConfig)       *)
(***************************************************************************)

\* a variable that is missing or empty
Missing(name) == ~Has(env, name) \/ env[name] = ""

AllRequiredSet == \A i \in 1..Len(RequiredVars) : ~Missing(RequiredVars[i])

\* C4: when a required variable is missing or empty, loadConfig throws the
\* missing-required-variable error, returns no configuration, and the error
\* names the first missing/empty variable in declaration order, whatever the
\* optional variables hold.
C4_FirstMissingRequiredIsReported ==
    configResult # NotLoaded =>
        \A i \in 1..Len(RequiredVars) :
            (Missing(RequiredVars[i]) /\ \A j \in 1..(i - 1) : ~Missing(RequiredVars[j]))
            => configResult = [status  |-> "threw",
                               message |-> "Missing required environment variable: "
                                           \o RequiredVars[i]]

\* loadConfig threw for an empty second variable although a later one is unset
\* and optional variables are set
C4_Witness ==
    /\ configResult = [status  |-> "threw",
                       message |-> "Missing required environment variable: TWITTER_API_SECRET"]
    /\ ~Missing("TWITTER_API_KEY")
    /\ Has(env, "TWITTER_API_SECRET") /\ env["TWITTER_API_SECRET"] = ""
    /\ ~Has(env, "TWITTER_BEARER_TOKEN")
    /\ Has(env, "NODE_ENV") /\ env["NODE_ENV"] = "staging"

\* the required values come back unchanged and an unset optional variable
\* takes its default (the part of C5 its original and amended forms share)
RequiredAndDefaults ==
    /\ configResult.status = "returned"
    /\ configResult.value.twitter =
           [apiKey            |-> env["TWITTER_API_KEY"],
            apiSecret         |-> env["TWITTER_API_SECRET"],
            accessToken       |-> env["TWITTER_ACCESS_TOKEN"],
            accessTokenSecret |-> env["TWITTER_ACCESS_TOKEN_SECRET"],
            bearerToken       |-> env["TWITTER_BEARER_TOKEN"]]
    /\ ~Has(env, "NODE_ENV") => configResult.value.app.environment = "development"
    /\ ~Has(env, "LOG_LEVEL") => configResult.value.app.logLevel = "info"
    /\ ~Has(env, "ANTHROPIC_API_KEY") => configResult.value.anthropic.apiKey = ""

\* C5 as stated: with all five required variables set and non-empty loadConfig
\* returns them unchanged, unset optional variables take development / info / "",
\* and every set NODE_ENV / LOG_LEVEL value is passed through as it is.
C5_SetValuePassedThrough ==
    (configResult # NotLoaded /\ AllRequiredSet) =>
        /\ RequiredAndDefaults
        /\ Has(env, "NODE_ENV") => configResult.value.app.environment = env["NODE_ENV"]
        /\ Has(env, "LOG_LEVEL") => configResult.value.app.logLevel = env["LOG_LEVEL"]

\* C5 amended: as C5, but only a non-empty NODE_ENV / LOG_LEVEL value is passed
\* through as it is (inside or outside the enumeration); a variable set to the
\* empty string takes the default like an unset one.
C5_NonEmptyValuePassedThrough ==
    (configResult # NotLoaded /\ AllRequiredSet) =>
        /\ RequiredAndDefaults
        /\ \A n \in {"NODE_ENV", "LOG_LEVEL"} :
             LET got      == IF n = "NODE_ENV" THEN configResult.value.app.environment
                             ELSE configResult.value.app.logLevel
                 fallback == IF n = "NODE_ENV" THEN "development" ELSE "info"
             IN  /\ (Has(env, n) /\ env[n] # "") => got = env[n]
                 /\ (Has(env, n) /\ env[n] = "") => got = fallback

\* loadConfig returned with a NODE_ENV outside the enumeration passed through
\* and an empty LOG_LEVEL replaced by the default
C5_Witness ==
    /\ configResult.status = "returned"
    /\ Has(env, "NODE_ENV") /\ env["NODE_ENV"] = "staging"
    /\ configResult.value.app.environment = "staging"
    /\ Has(env, "LOG_LEVEL") /\ env["LOG_LEVEL"] = ""
    /\ configResult.value.app.logLevel = "info"
    /\ ~Has(env, "ANTHROPIC_API_KEY")

(***************************************************************************)
(* Properties of the mapping functions (checked under SpecMapping)         *)
(***************************************************************************)

\* the domain-model counter fed by each upstream sub-field
CounterOf(key) ==
    CASE key = "like_count"       -> mapped.value.metrics.likes
      [] key = "retweet_count"    -> mapped.value.metrics.retweets
      [] key = "reply_count"      -> mapped.value.metrics.replies
      [] key = "impression_count" -> mapped.value.metrics.impressions
      [] key = "quote_count"      -> mapped.value.metrics.quotes
      [] key = "bookmark_count"   -> mapped.value.metrics.bookmarks
      [] key = "followers_count"  -> mapped.value.followersCount
      [] key = "following_count"  -> mapped.value.followingCount
      [] key = "tweet_count"      -> mapped.value.tweetCount

\* the upstream counters of the raw payload at hand (none when public_metrics is absent)
UpstreamCounters ==
    IF Has(raw.value, "public_metrics") THEN raw.value.public_metrics ELSE EmptyObject

CounterKeys == IF mapped.kind = "tweet" THEN TweetMetricKeys ELSE UserMetricKeys

\* every counter of the mapped object is there, an absent sub-field gives 0 and
\* a present one keeps its upstream value
CountersZeroFilled ==
    /\ mapped.kind = "tweet" =>
         DOMAIN mapped.value.metrics =
             {"likes", "retweets", "replies", "impressions", "quotes", "bookmarks"}
    /\ mapped.kind = "user" =>
         {"followersCount", "followingCount", "tweetCount"} \subseteq DOMAIN mapped.value
    /\ \A key \in CounterKeys :
         /\ ~Has(UpstreamCounters, key) => CounterOf(key) = 0
         /\ Has(UpstreamCounters, key) => CounterOf(key) = UpstreamCounters[key]

\* C6 as stated: in every mapped Post and UserProfile all six metrics and all
\* three counts are present and never negative, for any raw payload; an absent
\* sub-field gives 0 independently of the others and a present one keeps its value.
C6_CountersNeverNegative ==
    mapped # NotMapped =>
        /\ CountersZeroFilled
        /\ \A key \in CounterKeys : CounterOf(key) >= 0

\* C6 amended: all six metrics and all three counts are present; an absent
\* sub-field gives 0 independently of the others and a present one keeps its
\* upstream value, so a counter is negative exactly when its upstream
\* sub-field is present and negative.
C6_CountersZeroFilledOrUpstream ==
    mapped # NotMapped =>
        /\ CountersZeroFilled
        /\ \A key \in CounterKeys :
             CounterOf(key) < 0 <=> (Has(UpstreamCounters, key) /\ UpstreamCounters[key] < 0)

\* a post mapped from metrics with some sub-fields present and the rest absent
C6_Witness ==
    /\ mapped.kind = "tweet"
    /\ Has(raw.value, "public_metrics")
    /\ raw.value.public_metrics = [like_count |-> 7, retweet_count |-> -1, quote_count |-> 0]
    /\ mapped.value.metrics = [likes |-> 7, retweets |-> -1, replies |-> 0,
                               impressions |-> 0, quotes |-> 0, bookmarks |-> 0]

\* C10: the createdAt of a mapped post or user is the current time at mapping
\* time when the upstream creation timestamp is absent or unparsable, and the
\* parsed upstream value when it is present and parsable.
C10_CreatedAtFallsBackToNow ==
    mapped # NotMapped =>
        IF Has(raw.value, "created_at") /\ raw.value.created_at \in ParsableDates
        THEN mapped.value.createdAt = DateFromString(raw.value.created_at)
        ELSE mapped.value.createdAt = DateOf(mapped.now)

(***************************************************************************)
(* Properties of the client wrapper (checked under Spec)                   *)
(***************************************************************************)

Failed == last # NoCall /\ last.outcome.kind = "throw"

Succeeded == last # NoCall /\ last.outcome.kind = "resolve"

PageOperations == {"getUserTweets", "searchTweets"}

\* the last call failed with an Error that carries a rate-limit payload
FailedRateLimited ==
    /\ Failed
    /\ last.outcome.error.isError
    /\ Has(last.outcome.error, "rateLimit")
    /\ last.outcome.error.rateLimit \in RateLimitPayloads

\* C1: whatever the underlying call throws, no wrapper operation throws to its
\* caller and each returns its benign result: false for verifyCredentials, null
\* for getUser / getUserById / getTweet, and a page with an empty sequence and
\* resultCount 0 for getUserTweets / searchTweets.
C1_FailureGivesBenignResult ==
    Failed =>
        /\ ~last.result.threw
        /\ last.op = "verifyCredentials" => last.result.value = FALSE
        /\ last.op \in {"getUser", "getUserById", "getTweet"} => last.result.value = Null
        /\ last.op \in PageOperations =>
             /\ last.result.value.data = <<>>
             /\ last.result.value.meta.resultCount = 0

\* getTweet returned null after the underlying call threw a rate-limited Error
C1_Witness ==
    /\ last.op = "getTweet"
    /\ FailedRateLimited
    /\ last.result = [threw |-> FALSE, value |-> Null]

\* C2: after operation N fails with an error carrying a rate-limit payload
\* (limit L, remaining R, reset T), getRateLimitInfo(N) is a snapshot with
\* limit L, remaining R and reset the timestamp T*1000 ms; the failing call
\* leaves the snapshot of every other operation as it was, so its snapshot is
\* stored under N only.
C2_SnapshotStoredUnderOperation ==
    [][ (FailedRateLimited)' =>
          LET payload  == last'.outcome.error.rateLimit
              snapshot == getRateLimitInfo(rateLimits', last'.op)
          IN  /\ snapshot # Undefined
              /\ snapshot.limit = payload.limit
              /\ snapshot.remaining = payload.remaining
              /\ snapshot.reset = DateOf(payload.reset * 1000)
              /\ \A other \in Operations \ {last'.op} :
                   getRateLimitInfo(rateLimits', other) = getRateLimitInfo(rateLimits, other)
      ]_vars

\* C3: whenever the underlying call of any wrapper operation, verifyCredentials
\* included, fails with an error object carrying a rate-limit payload, a
\* snapshot keyed by the operation's logical name is in the map right after
\* the call returns.
C3_RateLimitedFailureIsRecorded ==
    FailedRateLimited =>
        /\ Has(rateLimits, last.op)
        /\ rateLimits[last.op].endpoint = last.op

\* C7: verifyCredentials under oauth1 awaits the identity endpoint and returns
\* true iff it resolved with a profile; under any other auth method it awaits
\* the posts-by-id probe and returns true for any response; a throwing call
\* gives false.
C7_VerifyCredentialsByAuthMethod ==
    (last # NoCall /\ last.op = "verifyCredentials") =>
        /\ ~last.result.threw
        /\ authMethod = "oauth1" =>
             /\ last.endpoint = "v2.me"
             /\ last.result.value = (Succeeded /\ Has(last.outcome.response, "data"))
        /\ authMethod # "oauth1" =>
             /\ last.endpoint = "readOnly.v2.tweets"
             /\ last.result.value = Succeeded

\* under oauth1 the identity call resolved without a profile and the result is false
C7_Witness ==
    /\ authMethod = "oauth1"
    /\ last.op = "verifyCredentials"
    /\ Succeeded
    /\ ~Has(last.outcome.response, "data")
    /\ last.result.value = FALSE

\* the posts an upstream page delivers (none when data or data.data is absent)
UpstreamPosts ==
    IF Has(last.outcome.response, "data") /\ Has(last.outcome.response.data, "data")
    THEN last.outcome.response.data.data
    ELSE <<>>

UpstreamMeta ==
    IF Has(last.outcome.response, "meta") THEN last.outcome.response.meta ELSE EmptyObject

\* C8: when the underlying call of getUserTweets / searchTweets succeeds, the
\* returned sequence is a list (one post per upstream post, empty when there are
\* none), never null/undefined, and nextToken is the upstream next_token; a
\* response with no posts gives an empty sequence with resultCount 0 and still
\* carries the upstream next token.
C8_SuccessfulPageKeepsTokenAndList ==
    (Succeeded /\ last.op \in PageOperations) =>
        LET page == last.result.value
        IN  /\ ~last.result.threw
            /\ DOMAIN page.data = 1..Len(UpstreamPosts)
            /\ Has(page.meta, "nextToken") <=> Has(UpstreamMeta, "next_token")
            /\ Has(UpstreamMeta, "next_token") => page.meta.nextToken = UpstreamMeta.next_token
            /\ UpstreamPosts = <<>> => (page.data = <<>> /\ page.meta.resultCount = 0)

\* C9: in every page returned by getUserTweets / searchTweets, meta.resultCount
\* is the number of items of the page, the length of the returned data
\* sequence, whatever the upstream response was.
C9_ResultCountIsPageLength ==
    (last # NoCall /\ last.op \in PageOperations) =>
        last.result.value.meta.resultCount = Len(last.result.value.data)

\* C11: the rate-limit map is empty after construction and changes only in a
\* call that fails with an error carrying rate-limit metadata: a successful
\* operation, a failure without rate-limit metadata and a call of
\* getRateLimitInfo or getAllRateLimits add, modify and remove no snapshot.
C11_MapChangesOnlyOnRateLimitedFailure ==
    /\ rateLimits = EmptyObject
    /\ [][ /\ (Succeeded' \/ (Failed' /\ ~FailedRateLimited')
               \/ last'.op \in {"getRateLimitInfo", "getAllRateLimits"})
              => rateLimits' = rateLimits
           /\ rateLimits' # rateLimits => FailedRateLimited'
         ]_vars

\* a snapshot recorded by an earlier failure is still there after a failure
\* of the same operation that carried no rate-limit metadata
C11_Witness ==
    /\ last.op = "getTweet"
    /\ Failed
    /\ ~Has(last.outcome.error, "rateLimit")
    /\ Has(rateLimits, "getTweet")
    /\ calls = 2

(***************************************************************************)
(* Properties of concurrently issued operations (checked under             *)
(* SpecConcurrent)                                                         *)
(***************************************************************************)

\* the snapshot handleError builds for an operation from a rate-limit payload
SnapshotOf(op, payload) ==
    [endpoint  |-> op,
     limit     |-> payload.limit,
     remaining |-> payload.remaining,
     reset     |-> DateOf(payload.reset * 1000)]

\* C12: under any interleaving of concurrently issued operations, the map holds
\* at most one snapshot per operation name and its endpoint field is its key;
\* after a rate-limited failure is handled the snapshot stored under its
\* operation name is exactly the payload of that failure, the one handled last
\* (overwritten, not merged or accumulated), and the snapshots of the other
\* operation names are retained.
C12_LastHandledFailureWins ==
    [][ /\ \A k \in DOMAIN rateLimits' :
             k \in Operations /\ rateLimits'[k].endpoint = k
        /\ FailedRateLimited' =>
             /\ Has(rateLimits', last'.op)
             /\ rateLimits'[last'.op] = SnapshotOf(last'.op, last'.outcome.error.rateLimit)
        /\ \A k \in DOMAIN rateLimits :
             (k # last'.op \/ ~FailedRateLimited') =>
                 (Has(rateLimits', k) /\ rateLimits'[k] = rateLimits[k])
      ]_vars

====
